---- MODULE Spec2Model ----
(***************************************************************************)
(* Checkpoint key remapper of grunsab/Titan: convert_weights_working.py.   *)
(*                                                                         *)
(* A source key such as 'residualBlocks.3.bn2.running_var' is the tuple    *)
(* <<"residualBlocks", <<3>>, "bn2", "running_var">>; a key without a      *)
(* block index has <<>> in the second place.  A destination key such as    *)
(* 'res_block_3.weight__44' is <<"res_block", <<3>>, "weight", <<44>>>>;   *)
(* the bare 'conv_block.weight' is <<"conv_block", <<>>, "weight", <<>>>>. *)
(* The f-strings of the code are injective on these tuples.                *)
(***************************************************************************)
EXTENDS Integers, Sequences, FiniteSets, TLC

VARIABLES
    argc,        \* len(sys.argv)
    input,       \* what torch.load finds in the input file
    pc,          \* position of the run / of the call
    state_dict,  \* the loaded source checkpoint
    num_blocks,  \* detected (or passed) number of residual blocks
    num_filters, \* detected (or passed) filter width
    tch_dict,    \* the destination mapping built by convert_to_tch_format
    tch_src,     \* for each destination key, the source key its value was read from
    err,         \* the exception that ended the run, if any
    output,      \* what torch.save wrote to the output file
    calls,       \* log of the finished direct calls of convert_to_tch_format
    mapping,     \* debug_tch_names.py: the dict create_correct_mapping builds
    inv_mapping, \* debug_tch_names.py: {v: k for k, v in mapping.items()}
    block_i      \* debug_tch_names.py: the loop index i of create_correct_mapping

vars == <<argc, input, pc, state_dict, num_blocks, num_filters,
          tch_dict, tch_src, err, output, calls, mapping, inv_mapping, block_i>>

\* ------------------------------------------------------------------ bounds
MaxBlocks == 20
MaxCalls == 2

\* The two presets (num_blocks, num_filters) the tables were traced for.
SupportedPresets == { <<10, 128>>, <<20, 256>> }
\* Filter widths a checkpoint may have: the two preset widths and another one.
FilterWidths == {64, 128, 256}

\* ------------------------------------------------------------------- keys
NoIdx == <<>>
Bare == <<>>
Src(grp, idx, layer, param) == <<grp, idx, layer, param>>
Dst(grp, idx, role, suffix) == <<grp, idx, role, suffix>>
W(dst, src) == [dst |-> dst, src |-> src]

\* ------------------------------------------------ convert_to_tch_format
\* Lines 12-17: the six stem assignments, in program order.
ConvBlockWrites ==
    << W(Dst("conv_block", NoIdx, "weight", Bare),       Src("convBlock1", NoIdx, "conv1", "weight")),
       W(Dst("conv_block", NoIdx, "bias", Bare),         Src("convBlock1", NoIdx, "conv1", "bias")),
       W(Dst("conv_block", NoIdx, "weight", <<2>>),      Src("convBlock1", NoIdx, "bn1", "weight")),
       W(Dst("conv_block", NoIdx, "bias", <<3>>),        Src("convBlock1", NoIdx, "bn1", "bias")),
       W(Dst("conv_block", NoIdx, "running_mean", Bare), Src("convBlock1", NoIdx, "bn1", "running_mean")),
       W(Dst("conv_block", NoIdx, "running_var", Bare),  Src("convBlock1", NoIdx, "bn1", "running_var")) >>

\* Lines 25-28: the four assignments common to every residual block.
ResBlockCommonWrites(i) ==
    << W(Dst("res_block", <<i>>, "weight", Bare),       Src("residualBlocks", <<i>>, "conv1", "weight")),
       W(Dst("res_block", <<i>>, "bias", Bare),         Src("residualBlocks", <<i>>, "conv1", "bias")),
       W(Dst("res_block", <<i>>, "running_mean", Bare), Src("residualBlocks", <<i>>, "bn1", "running_mean")),
       W(Dst("res_block", <<i>>, "running_var", Bare),  Src("residualBlocks", <<i>>, "bn1", "running_var")) >>

\* Lines 32-39 with bias__10 where the code has bias__12.
ResBlockFirstWrites_Bias10(i) ==
    << W(Dst("res_block", <<i>>, "weight", <<8>>),        Src("residualBlocks", <<i>>, "bn2", "weight")),
       W(Dst("res_block", <<i>>, "bias", <<9>>),          Src("residualBlocks", <<i>>, "bn2", "bias")),
       W(Dst("res_block", <<i>>, "bias", <<10>>),         Src("residualBlocks", <<i>>, "bn1", "bias")),
       W(Dst("res_block", <<i>>, "weight", <<13>>),       Src("residualBlocks", <<i>>, "conv2", "weight")),
       W(Dst("res_block", <<i>>, "weight", <<14>>),       Src("residualBlocks", <<i>>, "bn1", "weight")),
       W(Dst("res_block", <<i>>, "bias", <<15>>),         Src("residualBlocks", <<i>>, "conv2", "bias")),
       W(Dst("res_block", <<i>>, "running_mean", <<16>>), Src("residualBlocks", <<i>>, "bn2", "running_mean")),
       W(Dst("res_block", <<i>>, "running_var", <<17>>),  Src("residualBlocks", <<i>>, "bn2", "running_var")) >>

\* Lines 32-39: the literal suffixes of block 0.
ResBlockFirstWrites(i) ==
    << W(Dst("res_block", <<i>>, "weight", <<8>>),        Src("residualBlocks", <<i>>, "bn2", "weight")),
       W(Dst("res_block", <<i>>, "bias", <<9>>),          Src("residualBlocks", <<i>>, "bn2", "bias")),
       W(Dst("res_block", <<i>>, "bias", <<12>>),         Src("residualBlocks", <<i>>, "bn1", "bias")),
       W(Dst("res_block", <<i>>, "weight", <<13>>),       Src("residualBlocks", <<i>>, "conv2", "weight")),
       W(Dst("res_block", <<i>>, "weight", <<14>>),       Src("residualBlocks", <<i>>, "bn1", "weight")),
       W(Dst("res_block", <<i>>, "bias", <<15>>),         Src("residualBlocks", <<i>>, "conv2", "bias")),
       W(Dst("res_block", <<i>>, "running_mean", <<16>>), Src("residualBlocks", <<i>>, "bn2", "running_mean")),
       W(Dst("res_block", <<i>>, "running_var", <<17>>),  Src("residualBlocks", <<i>>, "bn2", "running_var")) >>

\* Line 46 with a stride of 10, the number of suffixes a block uses.
BlockBase_Stride10(i) == 20 + (i - 1) * 10

\* The base counted from the first block instead of the second.
BlockBase_FromZero(i) == 20 + i * 12

\* Line 46: base = 20 + (i - 1) * 12
BlockBase(i) == 20 + (i - 1) * 12

\* Lines 48-55 with bias__(base+1) read from conv1.bias, which line 26 has
\* read already (the table of debug_tch_names.py has this), so that
\* bn2.bias is never copied.
ResBlockOtherWrites_DupSource(i) ==
    LET base == BlockBase(i) IN
    << W(Dst("res_block", <<i>>, "weight", <<base>>),           Src("residualBlocks", <<i>>, "bn2", "weight")),
       W(Dst("res_block", <<i>>, "bias", <<base + 1>>),         Src("residualBlocks", <<i>>, "conv1", "bias")),
       W(Dst("res_block", <<i>>, "bias", <<base + 4>>),         Src("residualBlocks", <<i>>, "bn1", "bias")),
       W(Dst("res_block", <<i>>, "weight", <<base + 5>>),       Src("residualBlocks", <<i>>, "conv2", "weight")),
       W(Dst("res_block", <<i>>, "weight", <<base + 6>>),       Src("residualBlocks", <<i>>, "bn1", "weight")),
       W(Dst("res_block", <<i>>, "bias", <<base + 7>>),         Src("residualBlocks", <<i>>, "conv2", "bias")),
       W(Dst("res_block", <<i>>, "running_mean", <<base + 8>>), Src("residualBlocks", <<i>>, "bn2", "running_mean")),
       W(Dst("res_block", <<i>>, "running_var", <<base + 9>>),  Src("residualBlocks", <<i>>, "bn2", "running_var")) >>

\* Lines 48-55: the closed-form suffixes of the blocks after the first.
ResBlockOtherWrites(i) ==
    LET base == BlockBase(i) IN
    << W(Dst("res_block", <<i>>, "weight", <<base>>),           Src("residualBlocks", <<i>>, "bn2", "weight")),
       W(Dst("res_block", <<i>>, "bias", <<base + 1>>),         Src("residualBlocks", <<i>>, "bn2", "bias")),
       W(Dst("res_block", <<i>>, "bias", <<base + 4>>),         Src("residualBlocks", <<i>>, "bn1", "bias")),
       W(Dst("res_block", <<i>>, "weight", <<base + 5>>),       Src("residualBlocks", <<i>>, "conv2", "weight")),
       W(Dst("res_block", <<i>>, "weight", <<base + 6>>),       Src("residualBlocks", <<i>>, "bn1", "weight")),
       W(Dst("res_block", <<i>>, "bias", <<base + 7>>),         Src("residualBlocks", <<i>>, "conv2", "bias")),
       W(Dst("res_block", <<i>>, "running_mean", <<base + 8>>), Src("residualBlocks", <<i>>, "bn2", "running_mean")),
       W(Dst("res_block", <<i>>, "running_var", <<base + 9>>),  Src("residualBlocks", <<i>>, "bn2", "running_var")) >>

\* Lines 21-55: the body of the loop for one block index.
ResBlockWrites(i) ==
    ResBlockCommonWrites(i) \o
    (IF i = 0 THEN ResBlockFirstWrites(i) ELSE ResBlockOtherWrites(i))

\* Line 20: for i in range(num_blocks), blocks from..num_blocks-1.
RECURSIVE ResidualWritesFrom(_, _)
ResidualWritesFrom(i, n) ==
    IF i >= n THEN << >>
    ELSE ResBlockWrites(i) \o ResidualWritesFrom(i + 1, n)

ResidualWrites(n) == ResidualWritesFrom(0, n)

\* Lines 58-79 without the assignment of line 68 / 79: fc2.bias is not read.
ValueHeadWrites_NoFc2Bias(n) ==
    << W(Dst("value_head", NoIdx, "weight", Bare),       Src("valueHead", NoIdx, "conv1", "weight")),
       W(Dst("value_head", NoIdx, "bias", Bare),         Src("valueHead", NoIdx, "conv1", "bias")),
       W(Dst("value_head", NoIdx, "weight", <<IF n = 10 THEN 128 ELSE 248>>), Src("valueHead", NoIdx, "bn1", "weight")),
       W(Dst("value_head", NoIdx, "bias", <<IF n = 10 THEN 129 ELSE 249>>),   Src("valueHead", NoIdx, "bn1", "bias")),
       W(Dst("value_head", NoIdx, "running_mean", Bare), Src("valueHead", NoIdx, "bn1", "running_mean")),
       W(Dst("value_head", NoIdx, "running_var", Bare),  Src("valueHead", NoIdx, "bn1", "running_var")),
       W(Dst("value_head", NoIdx, "weight", <<IF n = 10 THEN 133 ELSE 253>>), Src("valueHead", NoIdx, "fc1", "weight")),
       W(Dst("value_head", NoIdx, "bias", <<IF n = 10 THEN 132 ELSE 252>>),   Src("valueHead", NoIdx, "fc1", "bias")),
       W(Dst("value_head", NoIdx, "weight", <<IF n = 10 THEN 135 ELSE 255>>), Src("valueHead", NoIdx, "fc2", "weight")) >>

\* Lines 58-79: the value head, branch chosen by num_blocks == 10.
ValueHeadWrites(n) ==
    IF n = 10
    THEN << W(Dst("value_head", NoIdx, "weight", Bare),       Src("valueHead", NoIdx, "conv1", "weight")),
            W(Dst("value_head", NoIdx, "bias", Bare),         Src("valueHead", NoIdx, "conv1", "bias")),
            W(Dst("value_head", NoIdx, "weight", <<128>>),    Src("valueHead", NoIdx, "bn1", "weight")),
            W(Dst("value_head", NoIdx, "bias", <<129>>),      Src("valueHead", NoIdx, "bn1", "bias")),
            W(Dst("value_head", NoIdx, "running_mean", Bare), Src("valueHead", NoIdx, "bn1", "running_mean")),
            W(Dst("value_head", NoIdx, "running_var", Bare),  Src("valueHead", NoIdx, "bn1", "running_var")),
            W(Dst("value_head", NoIdx, "weight", <<133>>),    Src("valueHead", NoIdx, "fc1", "weight")),
            W(Dst("value_head", NoIdx, "bias", <<132>>),      Src("valueHead", NoIdx, "fc1", "bias")),
            W(Dst("value_head", NoIdx, "weight", <<135>>),    Src("valueHead", NoIdx, "fc2", "weight")),
            W(Dst("value_head", NoIdx, "bias", <<134>>),      Src("valueHead", NoIdx, "fc2", "bias")) >>
    ELSE << W(Dst("value_head", NoIdx, "weight", Bare),       Src("valueHead", NoIdx, "conv1", "weight")),
            W(Dst("value_head", NoIdx, "bias", Bare),         Src("valueHead", NoIdx, "conv1", "bias")),
            W(Dst("value_head", NoIdx, "weight", <<248>>),    Src("valueHead", NoIdx, "bn1", "weight")),
            W(Dst("value_head", NoIdx, "bias", <<249>>),      Src("valueHead", NoIdx, "bn1", "bias")),
            W(Dst("value_head", NoIdx, "running_mean", Bare), Src("valueHead", NoIdx, "bn1", "running_mean")),
            W(Dst("value_head", NoIdx, "running_var", Bare),  Src("valueHead", NoIdx, "bn1", "running_var")),
            W(Dst("value_head", NoIdx, "weight", <<253>>),    Src("valueHead", NoIdx, "fc1", "weight")),
            W(Dst("value_head", NoIdx, "bias", <<252>>),      Src("valueHead", NoIdx, "fc1", "bias")),
            W(Dst("value_head", NoIdx, "weight", <<255>>),    Src("valueHead", NoIdx, "fc2", "weight")),
            W(Dst("value_head", NoIdx, "bias", <<254>>),      Src("valueHead", NoIdx, "fc2", "bias")) >>

\* Lines 82-90 alone: the 10x128 suffixes whatever num_blocks is.
PolicyHeadWrites_Preset10Only(n) ==
    << W(Dst("policy_head", NoIdx, "weight", Bare),       Src("policyHead", NoIdx, "conv1", "weight")),
       W(Dst("policy_head", NoIdx, "bias", Bare),         Src("policyHead", NoIdx, "conv1", "bias")),
       W(Dst("policy_head", NoIdx, "weight", <<138>>),    Src("policyHead", NoIdx, "bn1", "weight")),
       W(Dst("policy_head", NoIdx, "bias", <<139>>),      Src("policyHead", NoIdx, "bn1", "bias")),
       W(Dst("policy_head", NoIdx, "running_mean", Bare), Src("policyHead", NoIdx, "bn1", "running_mean")),
       W(Dst("policy_head", NoIdx, "running_var", Bare),  Src("policyHead", NoIdx, "bn1", "running_var")),
       W(Dst("policy_head", NoIdx, "weight", <<143>>),    Src("policyHead", NoIdx, "fc1", "weight")),
       W(Dst("policy_head", NoIdx, "bias", <<142>>),      Src("policyHead", NoIdx, "fc1", "bias")) >>

\* Lines 82-99: the policy head, branch chosen by num_blocks == 10.
PolicyHeadWrites(n) ==
    IF n = 10
    THEN << W(Dst("policy_head", NoIdx, "weight", Bare),       Src("policyHead", NoIdx, "conv1", "weight")),
            W(Dst("policy_head", NoIdx, "bias", Bare),         Src("policyHead", NoIdx, "conv1", "bias")),
            W(Dst("policy_head", NoIdx, "weight", <<138>>),    Src("policyHead", NoIdx, "bn1", "weight")),
            W(Dst("policy_head", NoIdx, "bias", <<139>>),      Src("policyHead", NoIdx, "bn1", "bias")),
            W(Dst("policy_head", NoIdx, "running_mean", Bare), Src("policyHead", NoIdx, "bn1", "running_mean")),
            W(Dst("policy_head", NoIdx, "running_var", Bare),  Src("policyHead", NoIdx, "bn1", "running_var")),
            W(Dst("policy_head", NoIdx, "weight", <<143>>),    Src("policyHead", NoIdx, "fc1", "weight")),
            W(Dst("policy_head", NoIdx, "bias", <<142>>),      Src("policyHead", NoIdx, "fc1", "bias")) >>
    ELSE << W(Dst("policy_head", NoIdx, "weight", Bare),       Src("policyHead", NoIdx, "conv1", "weight")),
            W(Dst("policy_head", NoIdx, "bias", Bare),         Src("policyHead", NoIdx, "conv1", "bias")),
            W(Dst("policy_head", NoIdx, "weight", <<258>>),    Src("policyHead", NoIdx, "bn1", "weight")),
            W(Dst("policy_head", NoIdx, "bias", <<259>>),      Src("policyHead", NoIdx, "bn1", "bias")),
            W(Dst("policy_head", NoIdx, "running_mean", Bare), Src("policyHead", NoIdx, "bn1", "running_mean")),
            W(Dst("policy_head", NoIdx, "running_var", Bare),  Src("policyHead", NoIdx, "bn1", "running_var")),
            W(Dst("policy_head", NoIdx, "weight", <<263>>),    Src("policyHead", NoIdx, "fc1", "weight")),
            W(Dst("policy_head", NoIdx, "bias", <<262>>),      Src("policyHead", NoIdx, "fc1", "bias")) >>

\* Lines 9-99: every assignment tch_dict[dst] = state_dict[src], in program order.
Assignments(n) ==
    ConvBlockWrites \o ResidualWrites(n) \o ValueHeadWrites(n) \o PolicyHeadWrites(n)

NoErr == [kind |-> "none", key |-> <<>>]
KeyError(k) == [kind |-> "KeyError", key |-> k]

SetMin(S) == CHOOSE m \in S : \A x \in S : m <= x
SetMax(S) == CHOOSE m \in S : \A x \in S : x <= m

\* The number of assignments of ws that complete against sd: the subscript
\* state_dict[src] raises KeyError(src) when src is absent, which ends the
\* function at that assignment.
Completed(ws, sd) ==
    LET keys == DOMAIN sd
        absent == { i \in DOMAIN ws : ws[i].src \notin keys }
    IN IF absent = {} THEN Len(ws) ELSE SetMin(absent) - 1

\* tch_dict[dst] = ...: the source key each destination key holds after
\* the assignments lo..hi (lo <= hi).  A later assignment to a key replaces
\* an earlier one: f @@ g takes f where both are defined.
RECURSIVE LastWrite(_, _, _)
LastWrite(ws, lo, hi) ==
    IF lo = hi THEN ws[lo].dst :> ws[lo].src
    ELSE LET mid == (lo + hi) \div 2
         IN LastWrite(ws, mid + 1, hi) @@ LastWrite(ws, lo, mid)

\* Execute storing under every key the tensor read by the first assignment.
Execute_FirstTensor(ws, sd) ==
    LET n == Completed(ws, sd)
    IN IF n = Len(ws)
       THEN LET src == LastWrite(ws, 1, n)
            IN [dict |-> [d \in DOMAIN src |-> sd[ws[1].src]], src |-> src, err |-> NoErr]
       ELSE [dict |-> << >>, src |-> << >>, err |-> KeyError(ws[n + 1].src)]

\* Lines 9-101: run the assignments ws against sd.  The result is the
\* returned dict (with, for each of its keys, the source key that was read
\* for it), or the KeyError raised, in which case nothing is returned.
Execute(ws, sd) ==
    LET n == Completed(ws, sd)
    IN IF n = Len(ws)
       THEN LET src == LastWrite(ws, 1, n)
            IN [dict |-> [d \in DOMAIN src |-> sd[src[d]]], src |-> src, err |-> NoErr]
       ELSE [dict |-> << >>, src |-> << >>, err |-> KeyError(ws[n + 1].src)]

\* The function choosing its table by the content of the first tensor.
convert_ByContent(sd, nb, nf) ==
    LET k == Src("convBlock1", NoIdx, "conv1", "weight")
    IN Execute(Assignments(IF k \in DOMAIN sd /\ sd[k].data[1] > 1 THEN 10 ELSE nb), sd)

\* The function choosing the head tables by num_filters == 128 instead.
convert_ByFilters(sd, nb, nf) ==
    LET preset == IF nf = 128 THEN 10 ELSE 20
    IN Execute(ConvBlockWrites \o ResidualWrites(nb) \o
               ValueHeadWrites(preset) \o PolicyHeadWrites(preset), sd)

\* The function refusing a checkpoint that holds a key it does not read.
convert_RejectExtras(sd, nb, nf) ==
    LET ws == Assignments(nb)
        read == { ws[i].src : i \in DOMAIN ws }
    IN IF DOMAIN sd \subseteq read
       THEN Execute(ws, sd)
       ELSE [dict |-> << >>, src |-> << >>,
             err |-> KeyError(CHOOSE k \in DOMAIN sd \ read : TRUE)]

\* Lines 7-101.  num_filters is never read.
convert_to_tch_format(sd, nb, nf) == Execute(Assignments(nb), sd)

\* ------------------------------------------------------- source checkpoints
ConvParams == {"weight", "bias"}
BnParams == {"weight", "bias", "running_mean", "running_var"}

LayerKeys(grp, idx, layer, params) == { Src(grp, idx, layer, p) : p \in params }

\* The state_dict keys of the network: the stem, one residual block, the heads.
StemKeys ==
    LayerKeys("convBlock1", NoIdx, "conv1", ConvParams) \cup
    LayerKeys("convBlock1", NoIdx, "bn1", BnParams)

BlockKeys(i) ==
    LayerKeys("residualBlocks", <<i>>, "conv1", ConvParams) \cup
    LayerKeys("residualBlocks", <<i>>, "bn1", BnParams) \cup
    LayerKeys("residualBlocks", <<i>>, "conv2", ConvParams) \cup
    LayerKeys("residualBlocks", <<i>>, "bn2", BnParams)

ValueHeadKeys ==
    LayerKeys("valueHead", NoIdx, "conv1", ConvParams) \cup
    LayerKeys("valueHead", NoIdx, "bn1", BnParams) \cup
    LayerKeys("valueHead", NoIdx, "fc1", ConvParams) \cup
    LayerKeys("valueHead", NoIdx, "fc2", ConvParams)

PolicyHeadKeys ==
    LayerKeys("policyHead", NoIdx, "conv1", ConvParams) \cup
    LayerKeys("policyHead", NoIdx, "bn1", BnParams) \cup
    LayerKeys("policyHead", NoIdx, "fc1", ConvParams)

HeadKeys == ValueHeadKeys \cup PolicyHeadKeys

InventoryKeys(n) ==
    StemKeys \cup UNION { BlockKeys(i) : i \in 0..(n - 1) } \cup HeadKeys

\* The inventories of every block count the model uses, computed once.
Inventories == [n \in 0..(MaxBlocks + 1) |-> InventoryKeys(n)]

RequiredKeys(n) == Inventories[n]

\* Keys a PyTorch state_dict also holds and the converter never reads.
TrackedKeys(n) ==
    { Src("convBlock1", NoIdx, "bn1", "num_batches_tracked"),
      Src("valueHead", NoIdx, "bn1", "num_batches_tracked"),
      Src("policyHead", NoIdx, "bn1", "num_batches_tracked") } \cup
    { Src("residualBlocks", <<i>>, "bn1", "num_batches_tracked") : i \in 0..(n - 1) } \cup
    { Src("residualBlocks", <<i>>, "bn2", "num_batches_tracked") : i \in 0..(n - 1) }

\* A tensor is opaque: its first dimension and its content.  The content of
\* the tensor stored under key k in the v-th set of weights is <<v, k>>, so
\* that tensors under different keys, or of different weights, differ.
Tensor(v, k, nf) == [shape0 |-> nf, data |-> <<v, k>>]

Checkpoint(keys, v, nf) == [k \in keys |-> Tensor(v, k, nf)]

\* The shapes of key set explored for n blocks: complete, one required key
\* missing, with the unread keys, one whole block absent (alone or with a
\* stem key absent too), no residual block at all.
Shapes(n) ==
    { [kind |-> "exact", key |-> << >>, blk |-> 0] } \cup
    { [kind |-> "missing", key |-> k, blk |-> 0] : k \in RequiredKeys(n) } \cup
    { [kind |-> "tracked", key |-> << >>, blk |-> 0] } \cup
    { [kind |-> "gap", key |-> << >>, blk |-> j] : j \in 0..(n - 1) } \cup
    { [kind |-> "gap_stem", key |-> << >>, blk |-> j] : j \in 0..(n - 1) } \cup
    { [kind |-> "no_blocks", key |-> << >>, blk |-> 0] }

\* A direct call may also be given the keys of one block more than it is
\* asked to convert.
CallShapes(n) == Shapes(n) \cup { [kind |-> "more_blocks", key |-> << >>, blk |-> 0] }

KeysOf(n, sh) ==
    CASE sh.kind = "exact" -> RequiredKeys(n)
      [] sh.kind = "missing" -> RequiredKeys(n) \ {sh.key}
      [] sh.kind = "tracked" -> RequiredKeys(n) \cup TrackedKeys(n)
      [] sh.kind = "gap" -> RequiredKeys(n) \ BlockKeys(sh.blk)
      [] sh.kind = "gap_stem" ->
            (RequiredKeys(n) \ BlockKeys(sh.blk)) \ {Src("convBlock1", NoIdx, "bn1", "bias")}
      [] sh.kind = "no_blocks" -> StemKeys \cup HeadKeys
      [] sh.kind = "more_blocks" -> RequiredKeys(n + 1)

\* The filter widths tried with a shape: all of them for the complete key
\* sets, the first preset's width for the others.
WidthsOf(sh) == IF sh.kind = "exact" THEN FilterWidths ELSE {128}

\* What torch.load finds: a checkpoint, or a file it cannot read.
Readable(sd) == [ok |-> TRUE, dict |-> sd]
Unreadable == [ok |-> FALSE, dict |-> << >>]
\* What is in the output file: nothing, or the saved mapping.
NoOutput == [written |-> FALSE, dict |-> << >>]
Written(d) == [written |-> TRUE, dict |-> d]
\* A mapping name that is not bound (yet); a number not bound yet is 0.
Unset == << >>

\* ------------------------------------------------------ the conversion run
Init ==
    /\ \/ argc = 1 /\ input = Unreadable
       \/ argc = 2 /\ input = Unreadable
       \/ argc = 2 /\ \E n \in 1..MaxBlocks : \E sh \in Shapes(n) : \E nf \in WidthsOf(sh) :
                          input = Readable(Checkpoint(KeysOf(n, sh), 1, nf))
    /\ pc = "start"
    /\ state_dict = Unset
    /\ num_blocks = 0
    /\ num_filters = 0
    /\ tch_dict = Unset
    /\ tch_src = Unset
    /\ err = NoErr
    /\ output = NoOutput
    /\ calls = << >>
    /\ mapping = << >>
    /\ inv_mapping = << >>
    /\ block_i = 0

\* Lines 105-107: no input path on the command line.
Usage ==
    /\ pc = "start"
    /\ argc < 2
    /\ pc' = "usage_exit"
    /\ UNCHANGED <<mapping, inv_mapping, block_i, argc, input, state_dict, num_blocks, num_filters,
                   tch_dict, tch_src, err, output, calls>>

\* Line 113: state_dict = torch.load(input_file).
Load ==
    /\ pc = "start"
    /\ argc >= 2
    /\ input.ok
    /\ state_dict' = input.dict
    /\ pc' = "detect"
    /\ UNCHANGED <<mapping, inv_mapping, block_i, argc, input, num_blocks, num_filters,
                   tch_dict, tch_src, err, output, calls>>

\* Line 113: torch.load raises; nothing catches it.
LoadFail ==
    /\ pc = "start"
    /\ argc >= 2
    /\ ~input.ok
    /\ err' = [kind |-> "LoadError", key |-> << >>]
    /\ pc' = "failed"
    /\ UNCHANGED <<mapping, inv_mapping, block_i, argc, input, state_dict, num_blocks, num_filters,
                   tch_dict, tch_src, output, calls>>

\* Line 117: [int(k.split('.')[1]) for k in keys if k.startswith('residualBlocks.')]
BlockIndices(sd) == { k[2][1] : k \in { x \in DOMAIN sd : x[1] = "residualBlocks" } }

\* Line 117 counting the distinct block indices instead.
DetectNumBlocks_Count(sd) == Cardinality(BlockIndices(sd))

\* Line 117: max([...]) + 1
DetectNumBlocks(sd) == SetMax(BlockIndices(sd)) + 1

FirstConvWeight == Src("convBlock1", NoIdx, "conv1", "weight")

\* Lines 117-118: both topology parameters are found.
Detect ==
    /\ pc = "detect"
    /\ BlockIndices(state_dict) # {}
    /\ FirstConvWeight \in DOMAIN state_dict
    /\ num_blocks' = DetectNumBlocks(state_dict)
    /\ num_filters' = state_dict[FirstConvWeight].shape0
    /\ pc' = "convert"
    /\ UNCHANGED <<mapping, inv_mapping, block_i, argc, input, state_dict, tch_dict, tch_src, err, output, calls>>

\* Lines 117-118: max() of an empty list raises ValueError; otherwise
\* num_blocks is bound and the subscript of line 118 raises KeyError.
DetectFail ==
    /\ pc = "detect"
    /\ \/ /\ BlockIndices(state_dict) = {}
          /\ err' = [kind |-> "ValueError", key |-> << >>]
          /\ num_blocks' = num_blocks
       \/ /\ BlockIndices(state_dict) # {}
          /\ FirstConvWeight \notin DOMAIN state_dict
          /\ num_blocks' = DetectNumBlocks(state_dict)
          /\ err' = KeyError(FirstConvWeight)
    /\ pc' = "failed"
    /\ UNCHANGED <<mapping, inv_mapping, block_i, argc, input, state_dict, num_filters, tch_dict, tch_src, output, calls>>

\* Line 123: tch_dict = convert_to_tch_format(...) returns.
Convert ==
    /\ pc = "convert"
    /\ LET r == convert_to_tch_format(state_dict, num_blocks, num_filters) IN
         /\ r.err = NoErr
         /\ tch_dict' = r.dict
         /\ tch_src' = r.src
    /\ pc' = "save"
    /\ UNCHANGED <<mapping, inv_mapping, block_i, argc, input, state_dict, num_blocks, num_filters, err, output, calls>>

\* Line 123: the call raises KeyError; tch_dict is never bound.
ConvertRaise ==
    /\ pc = "convert"
    /\ LET r == convert_to_tch_format(state_dict, num_blocks, num_filters) IN
         /\ r.err # NoErr
         /\ err' = r.err
    /\ pc' = "failed"
    /\ UNCHANGED <<mapping, inv_mapping, block_i, argc, input, state_dict, num_blocks, num_filters,
                   tch_dict, tch_src, output, calls>>

\* Line 126 in a finally clause: the save also runs after an exception.
Save_InFinally ==
    /\ pc \in {"save", "failed"}
    /\ output' = Written(tch_dict)
    /\ pc' = "done"
    /\ UNCHANGED <<mapping, inv_mapping, block_i, argc, input, state_dict, num_blocks, num_filters,
                   tch_dict, tch_src, err, calls>>

\* Line 126: torch.save(tch_dict, output_file).
Save ==
    /\ pc = "save"
    /\ output' = Written(tch_dict)
    /\ pc' = "done"
    /\ UNCHANGED <<mapping, inv_mapping, block_i, argc, input, state_dict, num_blocks, num_filters,
                   tch_dict, tch_src, err, calls>>

Next ==
    \/ Usage
    \/ Load
    \/ LoadFail
    \/ Detect
    \/ DetectFail
    \/ Convert
    \/ ConvertRaise
    \/ Save

Spec == Init /\ [][Next]_vars

\* ------------------------------------- direct calls of convert_to_tch_format
\* The function is applied to a checkpoint and topology parameters that are
\* chosen freely, and then again to checkpoints with the same keys and
\* parameters holding other weights.
CallInit ==
    /\ \E n \in 1..MaxBlocks : \E sh \in CallShapes(n) : \E nf \in WidthsOf(sh) :
          /\ state_dict = Checkpoint(KeysOf(n, sh), 1, nf)
          /\ num_blocks = n
          /\ num_filters = nf
    /\ pc = "call"
    /\ argc = 0
    /\ input = Unreadable
    /\ tch_dict = Unset
    /\ tch_src = Unset
    /\ err = NoErr
    /\ output = NoOutput
    /\ calls = << >>
    /\ mapping = << >>
    /\ inv_mapping = << >>
    /\ block_i = 0

CallRecord(r) ==
    [state_dict |-> state_dict, num_blocks |-> num_blocks, num_filters |-> num_filters,
     returned |-> (r.err = NoErr), tch_dict |-> r.dict, tch_src |-> r.src, err |-> r.err]

\* Lines 7-101: the call returns tch_dict.
CallReturn ==
    /\ pc = "call"
    /\ LET r == convert_to_tch_format(state_dict, num_blocks, num_filters) IN
         /\ r.err = NoErr
         /\ tch_dict' = r.dict
         /\ tch_src' = r.src
         /\ calls' = Append(calls, CallRecord(r))
    /\ pc' = "returned"
    /\ UNCHANGED <<mapping, inv_mapping, block_i, argc, input, state_dict, num_blocks, num_filters, err, output>>

\* Lines 7-101: the call raises KeyError and returns nothing.
CallRaise ==
    /\ pc = "call"
    /\ LET r == convert_to_tch_format(state_dict, num_blocks, num_filters) IN
         /\ r.err # NoErr
         /\ err' = r.err
         /\ calls' = Append(calls, CallRecord(r))
    /\ pc' = "raised"
    /\ UNCHANGED <<mapping, inv_mapping, block_i, argc, input, state_dict, num_blocks, num_filters,
                   tch_dict, tch_src, output>>

\* The next call: same keys, same topology parameters, other weights.
CallAgain ==
    /\ pc \in {"returned", "raised"}
    /\ Len(calls) < MaxCalls
    /\ state_dict' = Checkpoint(DOMAIN state_dict, Len(calls) + 1, num_filters)
    /\ tch_dict' = Unset
    /\ tch_src' = Unset
    /\ err' = NoErr
    /\ pc' = "call"
    /\ UNCHANGED <<mapping, inv_mapping, block_i, argc, input, num_blocks, num_filters, output, calls>>

\* The next call after one that returned: the same checkpoint and
\* num_blocks, another num_filters.
CallOtherWidth ==
    /\ pc = "returned"
    /\ Len(calls) < MaxCalls
    /\ \E nf \in FilterWidths \ {num_filters} : num_filters' = nf
    /\ tch_dict' = Unset
    /\ tch_src' = Unset
    /\ pc' = "call"
    /\ UNCHANGED <<mapping, inv_mapping, block_i, argc, input, state_dict, num_blocks,
                   err, output, calls>>

\* The next call after one that returned: the same checkpoint with every
\* key outside the required inventory removed, same topology parameters.
CallWithoutExtras ==
    /\ pc = "returned"
    /\ Len(calls) < MaxCalls
    /\ LET req == RequiredKeys(num_blocks) IN
         /\ DOMAIN state_dict # req
         /\ state_dict' = [k \in req |-> state_dict[k]]
    /\ tch_dict' = Unset
    /\ tch_src' = Unset
    /\ pc' = "call"
    /\ UNCHANGED <<mapping, inv_mapping, block_i, argc, input, num_blocks, num_filters,
                   err, output, calls>>

CallNext ==
    \/ CallReturn
    \/ CallRaise
    \/ CallAgain
    \/ CallOtherWidth
    \/ CallWithoutExtras

CallSpec == CallInit /\ [][CallNext]_vars

\* ------------------------------- debug_tch_names.py: create_correct_mapping
\* A Python dict keeps its items in insertion order: `mapping` is the
\* sequence of its items [dst, src], no two with the same dst.
\* mapping[k] = v: the value of k is replaced in place, or the item appended.
MappingSet(items, k, v) ==
    IF \E p \in DOMAIN items : items[p].dst = k
    THEN [p \in DOMAIN items |-> IF items[p].dst = k THEN W(k, v) ELSE items[p]]
    ELSE Append(items, W(k, v))

\* The assignments ws made one after the other, from position p on.
RECURSIVE MappingSetAll(_, _, _)
MappingSetAll(items, ws, p) ==
    IF p > Len(ws) THEN items
    ELSE MappingSetAll(MappingSet(items, ws[p].dst, ws[p].src), ws, p + 1)

\* debug_tch_names.py lines 61-66.
MappingConvBlock ==
    << W(Dst("conv_block", NoIdx, "weight", Bare),       Src("convBlock1", NoIdx, "conv1", "weight")),
       W(Dst("conv_block", NoIdx, "bias", Bare),         Src("convBlock1", NoIdx, "conv1", "bias")),
       W(Dst("conv_block", NoIdx, "weight", <<2>>),      Src("convBlock1", NoIdx, "bn1", "weight")),
       W(Dst("conv_block", NoIdx, "bias", <<3>>),        Src("convBlock1", NoIdx, "bn1", "bias")),
       W(Dst("conv_block", NoIdx, "running_mean", Bare), Src("convBlock1", NoIdx, "bn1", "running_mean")),
       W(Dst("conv_block", NoIdx, "running_var", Bare),  Src("convBlock1", NoIdx, "bn1", "running_var")) >>

\* debug_tch_names.py lines 75-86: the branch i == 0.
MappingFirstBlock(i) ==
    << W(Dst("res_block", <<i>>, "weight", Bare),         Src("residualBlocks", <<i>>, "conv1", "weight")),
       W(Dst("res_block", <<i>>, "bias", Bare),           Src("residualBlocks", <<i>>, "conv1", "bias")),
       W(Dst("res_block", <<i>>, "weight", <<8>>),        Src("residualBlocks", <<i>>, "bn2", "weight")),
       W(Dst("res_block", <<i>>, "bias", <<9>>),          Src("residualBlocks", <<i>>, "bn2", "bias")),
       W(Dst("res_block", <<i>>, "bias", <<12>>),         Src("residualBlocks", <<i>>, "bn1", "bias")),
       W(Dst("res_block", <<i>>, "weight", <<13>>),       Src("residualBlocks", <<i>>, "conv2", "weight")),
       W(Dst("res_block", <<i>>, "weight", <<14>>),       Src("residualBlocks", <<i>>, "bn1", "weight")),
       W(Dst("res_block", <<i>>, "bias", <<15>>),         Src("residualBlocks", <<i>>, "conv2", "bias")),
       W(Dst("res_block", <<i>>, "running_mean", Bare),   Src("residualBlocks", <<i>>, "bn1", "running_mean")),
       W(Dst("res_block", <<i>>, "running_var", Bare),    Src("residualBlocks", <<i>>, "bn1", "running_var")),
       W(Dst("res_block", <<i>>, "running_mean", <<16>>), Src("residualBlocks", <<i>>, "bn2", "running_mean")),
       W(Dst("res_block", <<i>>, "running_var", <<17>>),  Src("residualBlocks", <<i>>, "bn2", "running_var")) >>

\* debug_tch_names.py lines 90-104: the branch i >= 1, fourteen assignments.
MappingOtherBlock(i) ==
    LET base == 20 + (i - 1) * 12 IN
    << W(Dst("res_block", <<i>>, "weight", Bare),               Src("residualBlocks", <<i>>, "conv1", "weight")),
       W(Dst("res_block", <<i>>, "bias", Bare),                 Src("residualBlocks", <<i>>, "conv1", "bias")),
       W(Dst("res_block", <<i>>, "weight", <<base>>),           Src("residualBlocks", <<i>>, "bn2", "weight")),
       W(Dst("res_block", <<i>>, "bias", <<base + 1>>),         Src("residualBlocks", <<i>>, "conv1", "bias")),
       W(Dst("res_block", <<i>>, "weight", <<base + 2>>),       Src("residualBlocks", <<i>>, "bn2", "weight")),
       W(Dst("res_block", <<i>>, "bias", <<base + 3>>),         Src("residualBlocks", <<i>>, "bn2", "bias")),
       W(Dst("res_block", <<i>>, "bias", <<base + 4>>),         Src("residualBlocks", <<i>>, "bn1", "bias")),
       W(Dst("res_block", <<i>>, "weight", <<base + 5>>),       Src("residualBlocks", <<i>>, "bn1", "weight")),
       W(Dst("res_block", <<i>>, "weight", <<base + 6>>),       Src("residualBlocks", <<i>>, "conv2", "weight")),
       W(Dst("res_block", <<i>>, "bias", <<base + 7>>),         Src("residualBlocks", <<i>>, "conv2", "bias")),
       W(Dst("res_block", <<i>>, "running_mean", Bare),         Src("residualBlocks", <<i>>, "bn1", "running_mean")),
       W(Dst("res_block", <<i>>, "running_var", Bare),          Src("residualBlocks", <<i>>, "bn1", "running_var")),
       W(Dst("res_block", <<i>>, "running_mean", <<base + 8>>), Src("residualBlocks", <<i>>, "bn2", "running_mean")),
       W(Dst("res_block", <<i>>, "running_var", <<base + 9>>),  Src("residualBlocks", <<i>>, "bn2", "running_var")) >>

\* debug_tch_names.py line 110: {v: k for k, v in mapping.items()}.  The
\* items are visited in order, so of the items with one value the last
\* one's key is kept.
InverseOf(items) ==
    [v \in { items[p].src : p \in DOMAIN items } |->
        items[SetMax({ p \in DOMAIN items : items[p].src = v })].dst]

\* create_correct_mapping(num_blocks) is called with the mapping empty.
MapInit ==
    /\ num_blocks \in 1..MaxBlocks
    /\ pc = "map_start"
    /\ mapping = << >>
    /\ inv_mapping = << >>
    /\ block_i = 0
    /\ argc = 0
    /\ input = Unreadable
    /\ state_dict = Unset
    /\ num_filters = 0
    /\ tch_dict = Unset
    /\ tch_src = Unset
    /\ err = NoErr
    /\ output = NoOutput
    /\ calls = << >>

\* Lines 58-66: the stem entries.
MapStem ==
    /\ pc = "map_start"
    /\ mapping' = MappingSetAll(mapping, MappingConvBlock, 1)
    /\ block_i' = 0
    /\ pc' = "map_loop"
    /\ UNCHANGED <<inv_mapping, argc, input, state_dict, num_blocks, num_filters,
                   tch_dict, tch_src, err, output, calls>>

\* Lines 69-86: one turn of the loop with i == 0.
MapFirstBlock ==
    /\ pc = "map_loop"
    /\ block_i < num_blocks
    /\ block_i = 0
    /\ mapping' = MappingSetAll(mapping, MappingFirstBlock(block_i), 1)
    /\ block_i' = block_i + 1
    /\ UNCHANGED <<pc, inv_mapping, argc, input, state_dict, num_blocks, num_filters,
                   tch_dict, tch_src, err, output, calls>>

\* Lines 69-104: one turn of the loop with i >= 1.
MapOtherBlock ==
    /\ pc = "map_loop"
    /\ block_i < num_blocks
    /\ block_i # 0
    /\ mapping' = MappingSetAll(mapping, MappingOtherBlock(block_i), 1)
    /\ block_i' = block_i + 1
    /\ UNCHANGED <<pc, inv_mapping, argc, input, state_dict, num_blocks, num_filters,
                   tch_dict, tch_src, err, output, calls>>

\* Line 106: the loop is over, return mapping.
MapReturn ==
    /\ pc = "map_loop"
    /\ block_i >= num_blocks
    /\ pc' = "map_returned"
    /\ UNCHANGED <<mapping, inv_mapping, block_i, argc, input, state_dict, num_blocks,
                   num_filters, tch_dict, tch_src, err, output, calls>>

\* Line 110: inv_mapping = {v: k for k, v in mapping.items()}.
Invert ==
    /\ pc = "map_returned"
    /\ inv_mapping' = InverseOf(mapping)
    /\ pc' = "inverted"
    /\ UNCHANGED <<mapping, block_i, argc, input, state_dict, num_blocks,
                   num_filters, tch_dict, tch_src, err, output, calls>>

MapNext ==
    \/ MapStem
    \/ MapFirstBlock
    \/ MapOtherBlock
    \/ MapReturn
    \/ Invert

MapSpec == MapInit /\ [][MapNext]_vars

\* ------------------------------------------------------------------ claims
\* The destination keys of a mapping and the table the code reads them from.
Assigned(nb) == LET ws == Assignments(nb) IN { <<ws[i].dst, ws[i].src>> : i \in DOMAIN ws }

\* C1: for num_blocks 10 and 20 and a checkpoint holding exactly the
\* required keys, the call returns 24 + 12*num_blocks keys, and the
\* destination key -> source key assignment is one-to-one and onto the
\* required keys.
C1_PresetBijection ==
    (/\ pc \in {"returned", "raised"}
     /\ num_blocks \in {10, 20}
     /\ DOMAIN state_dict = RequiredKeys(num_blocks))
    => /\ pc = "returned"
       /\ Cardinality(RequiredKeys(num_blocks)) = 24 + 12 * num_blocks
       /\ Cardinality(DOMAIN tch_dict) = 24 + 12 * num_blocks
       /\ DOMAIN tch_src = DOMAIN tch_dict
       /\ { tch_src[d] : d \in DOMAIN tch_src } = RequiredKeys(num_blocks)
       /\ Cardinality({ tch_src[d] : d \in DOMAIN tch_src }) = Cardinality(DOMAIN tch_src)

C1_Witness ==
    /\ pc = "returned"
    /\ num_blocks = 20
    /\ DOMAIN state_dict = RequiredKeys(20)
    /\ Cardinality(DOMAIN tch_dict) = 264

\* C2: every value of the returned mapping is the tensor the source
\* checkpoint holds under the source key the table assigns to that
\* destination key.
C2_ValuesCopied ==
    pc = "returned"
    => LET table == Assigned(num_blocks) IN
       \A d \in DOMAIN tch_dict :
          /\ <<d, tch_src[d]>> \in table
          /\ tch_dict[d] = state_dict[tch_src[d]]
          /\ tch_dict[d].data[2] = tch_src[d]

C2_Witness ==
    /\ pc = "returned"
    /\ num_blocks = 10
    /\ Dst("res_block", <<3>>, "weight", <<49>>) \in DOMAIN tch_dict
    /\ tch_dict[Dst("res_block", <<3>>, "weight", <<49>>)]
          = state_dict[Src("residualBlocks", <<3>>, "conv2", "weight")]

\* C3: a run whose detected (num_blocks, num_filters) is not one of the
\* presets (10, 128) and (20, 256) ends in an UnknownTopologyError, with no
\* mapping bound and no output written.  Stated for checkpoints that hold
\* every key the conversion reads, so that no other error comes first.
C3_UnknownTopologyRejected ==
    (/\ pc \in {"save", "done", "failed"}
     /\ num_filters # 0
     /\ <<num_blocks, num_filters>> \notin SupportedPresets
     /\ RequiredKeys(num_blocks) \subseteq DOMAIN state_dict)
    => /\ pc = "failed"
       /\ err.kind = "UnknownTopologyError"
       /\ tch_dict = Unset
       /\ ~output.written

\* C4: when exactly one required source key is absent, the call raises a
\* KeyError naming that key and returns no mapping.
C4_MissingKeyNamed ==
    (/\ pc \in {"returned", "raised"}
     /\ Cardinality(RequiredKeys(num_blocks) \ DOMAIN state_dict) = 1)
    => /\ pc = "raised"
       /\ err.kind = "KeyError"
       /\ RequiredKeys(num_blocks) \ DOMAIN state_dict = {err.key}
       /\ tch_dict = Unset
       /\ ~calls[Len(calls)].returned
       /\ calls[Len(calls)].err = err

C4_Witness ==
    /\ pc = "raised"
    /\ num_blocks = 10
    /\ DOMAIN state_dict = RequiredKeys(10) \ {Src("residualBlocks", <<2>>, "bn2", "running_var")}
    /\ err = KeyError(Src("residualBlocks", <<2>>, "bn2", "running_var"))

\* The keys the scenario of C5 lists for the stem and for block 0.
C5_ConvBlockKeys ==
    { Dst("conv_block", NoIdx, "weight", Bare), Dst("conv_block", NoIdx, "bias", Bare),
      Dst("conv_block", NoIdx, "weight", <<2>>), Dst("conv_block", NoIdx, "bias", <<3>>),
      Dst("conv_block", NoIdx, "running_mean", Bare), Dst("conv_block", NoIdx, "running_var", Bare) }

C5_ResBlock0Keys ==
    { Dst("res_block", <<0>>, "weight", Bare), Dst("res_block", <<0>>, "bias", Bare),
      Dst("res_block", <<0>>, "weight", <<8>>), Dst("res_block", <<0>>, "bias", <<9>>),
      Dst("res_block", <<0>>, "running_mean", Bare), Dst("res_block", <<0>>, "running_var", Bare),
      Dst("res_block", <<0>>, "bias", <<12>>), Dst("res_block", <<0>>, "weight", <<13>>),
      Dst("res_block", <<0>>, "weight", <<14>>), Dst("res_block", <<0>>, "bias", <<15>>),
      Dst("res_block", <<0>>, "running_mean", <<16>>), Dst("res_block", <<0>>, "running_var", <<17>>) }

C5_BareHeadKeys ==
    { Dst(h, NoIdx, r, Bare) : h \in {"value_head", "policy_head"},
                               r \in {"weight", "bias", "running_mean", "running_var"} }

\* The suffixed head keys of the 10x128 preset, and those of the 20x256 one.
C5_Heads10x128 ==
    { Dst("value_head", NoIdx, "weight", <<128>>), Dst("value_head", NoIdx, "bias", <<129>>),
      Dst("value_head", NoIdx, "weight", <<133>>), Dst("value_head", NoIdx, "bias", <<132>>),
      Dst("value_head", NoIdx, "weight", <<135>>), Dst("value_head", NoIdx, "bias", <<134>>),
      Dst("policy_head", NoIdx, "weight", <<138>>), Dst("policy_head", NoIdx, "bias", <<139>>),
      Dst("policy_head", NoIdx, "weight", <<143>>), Dst("policy_head", NoIdx, "bias", <<142>>) }

C5_Heads20x256 ==
    { Dst("value_head", NoIdx, "weight", <<248>>), Dst("value_head", NoIdx, "bias", <<249>>),
      Dst("value_head", NoIdx, "weight", <<253>>), Dst("value_head", NoIdx, "bias", <<252>>),
      Dst("value_head", NoIdx, "weight", <<255>>), Dst("value_head", NoIdx, "bias", <<254>>),
      Dst("policy_head", NoIdx, "weight", <<258>>), Dst("policy_head", NoIdx, "bias", <<259>>),
      Dst("policy_head", NoIdx, "weight", <<263>>), Dst("policy_head", NoIdx, "bias", <<262>>) }

C5_Scenario ==
    /\ pc \in {"returned", "raised"}
    /\ num_blocks = 1
    /\ DOMAIN state_dict = RequiredKeys(1)

DestKeys(nb) == LET ws == Assignments(nb) IN { ws[i].dst : i \in DOMAIN ws }

\* C6: the output file is written only by a run whose load, detection and
\* conversion all succeeded, and then it holds the whole mapping, every
\* destination key of the table; a run that failed has written nothing.
C6_OutputAllOrNothing ==
    /\ output.written
         => /\ pc = "done"
            /\ err = NoErr
            /\ output.dict = tch_dict
            /\ DOMAIN output.dict = DestKeys(num_blocks)
    /\ pc # "done" => output = NoOutput
    /\ err # NoErr => pc = "failed" /\ output = NoOutput

C6_Witness ==
    /\ pc = "failed"
    /\ err.kind = "KeyError"
    /\ num_filters # 0
    /\ output = NoOutput

\* C7: two calls on checkpoints with the same keys and the same topology
\* parameters end the same way, return the same destination keys with the
\* same destination key -> source key assignment, and each returned value
\* is the tensor of the call's own checkpoint (so the values differ).
C7_DataIndependent ==
    \A i \in DOMAIN calls : \A j \in DOMAIN calls :
       (/\ i # j
        /\ DOMAIN calls[i].state_dict = DOMAIN calls[j].state_dict
        /\ calls[i].state_dict # calls[j].state_dict
        /\ calls[i].num_blocks = calls[j].num_blocks
        /\ calls[i].num_filters = calls[j].num_filters)
       => /\ calls[i].err = calls[j].err
          /\ calls[i].returned = calls[j].returned
          /\ DOMAIN calls[i].tch_dict = DOMAIN calls[j].tch_dict
          /\ calls[i].tch_src = calls[j].tch_src
          /\ \A d \in DOMAIN calls[i].tch_dict :
                /\ calls[i].tch_dict[d] = calls[i].state_dict[calls[i].tch_src[d]]
                /\ calls[i].tch_dict[d] # calls[j].tch_dict[d]

C7_Witness ==
    /\ Len(calls) = 2
    /\ calls[1].returned
    /\ calls[2].returned
    /\ calls[1].num_blocks = 10
    /\ DOMAIN calls[1].state_dict = DOMAIN calls[2].state_dict
    /\ calls[1].state_dict # calls[2].state_dict
    /\ calls[1].tch_dict # calls[2].tch_dict

\* The suffixed keys of res_block_i in the returned mapping, each as
\* <<role, suffix, source layer, source parameter>>, and the bare ones as
\* <<role, source layer, source parameter>>.
SuffixedOf(i) ==
    { <<d[3], d[4][1], tch_src[d][3], tch_src[d][4]>> :
        d \in { x \in DOMAIN tch_dict : x[1] = "res_block" /\ x[2] = <<i>> /\ x[4] # Bare } }

BareOf(i) ==
    { <<d[3], tch_src[d][3], tch_src[d][4]>> :
        d \in { x \in DOMAIN tch_dict : x[1] = "res_block" /\ x[2] = <<i>> /\ x[4] = Bare } }

SuffixNumbersOf(i) == { q[2] : q \in SuffixedOf(i) }

\* C8: block i >= 1 has exactly the eight suffixed keys of base
\* 20 + (i-1)*12 (block 1: 20,21,24..29; block 2: 32,33,36..41; block 3:
\* 44,45,48..53), block 0 the literal ones 8,9,12..17, and every block the
\* four bare keys from conv1.weight, conv1.bias, bn1.running_mean,
\* bn1.running_var; all read from residualBlocks.i.
C8_BlockSuffixes ==
    pc = "returned"
    => \A i \in 0..(num_blocks - 1) :
         /\ \A d \in DOMAIN tch_dict :
               (d[1] = "res_block" /\ d[2] = <<i>>)
               => (tch_src[d][1] = "residualBlocks" /\ tch_src[d][2] = <<i>>)
         /\ BareOf(i) = { <<"weight", "conv1", "weight">>, <<"bias", "conv1", "bias">>,
                          <<"running_mean", "bn1", "running_mean">>,
                          <<"running_var", "bn1", "running_var">> }
         /\ i = 0 =>
               SuffixedOf(i) = { <<"weight", 8, "bn2", "weight">>, <<"bias", 9, "bn2", "bias">>,
                                 <<"bias", 12, "bn1", "bias">>, <<"weight", 13, "conv2", "weight">>,
                                 <<"weight", 14, "bn1", "weight">>, <<"bias", 15, "conv2", "bias">>,
                                 <<"running_mean", 16, "bn2", "running_mean">>,
                                 <<"running_var", 17, "bn2", "running_var">> }
         /\ i >= 1 =>
               LET base == 20 + (i - 1) * 12 IN
               SuffixedOf(i) = { <<"weight", base, "bn2", "weight">>, <<"bias", base + 1, "bn2", "bias">>,
                                 <<"bias", base + 4, "bn1", "bias">>, <<"weight", base + 5, "conv2", "weight">>,
                                 <<"weight", base + 6, "bn1", "weight">>, <<"bias", base + 7, "conv2", "bias">>,
                                 <<"running_mean", base + 8, "bn2", "running_mean">>,
                                 <<"running_var", base + 9, "bn2", "running_var">> }
         /\ i = 1 => SuffixNumbersOf(i) = {20, 21, 24, 25, 26, 27, 28, 29}
         /\ i = 2 => SuffixNumbersOf(i) = {32, 33, 36, 37, 38, 39, 40, 41}
         /\ i = 3 => SuffixNumbersOf(i) = {44, 45, 48, 49, 50, 51, 52, 53}

C8_Witness ==
    /\ pc = "returned"
    /\ num_blocks >= 4
    /\ Dst("res_block", <<3>>, "running_var", <<53>>) \in DOMAIN tch_dict
    /\ tch_src[Dst("res_block", <<3>>, "running_var", <<53>>)]
          = Src("residualBlocks", <<3>>, "bn2", "running_var")

\* The place of a destination key's group in trace order: conv_block,
\* res_block_0, res_block_1, ..., value_head, policy_head.
GroupRank(d, nb) ==
    CASE d[1] = "conv_block" -> 0
      [] d[1] = "res_block" -> d[2][1] + 1
      [] d[1] = "value_head" -> nb + 1
      [] d[1] = "policy_head" -> nb + 2

\* C9: for num_blocks 10 and 20 no numeric suffix occurs in two output
\* keys, and the suffixes of an earlier group (conv_block, res_block_0,
\* ..., the last res_block, value_head, policy_head) are all smaller than
\* those of a later group.
C9_SuffixesIncrease ==
    (pc = "returned" /\ num_blocks \in {10, 20})
    => LET suffixed == { d \in DOMAIN tch_dict : d[4] # Bare } IN
       \A d1 \in suffixed : \A d2 \in suffixed :
          /\ d1 # d2 => d1[4] # d2[4]
          /\ GroupRank(d1, num_blocks) < GroupRank(d2, num_blocks) => d1[4][1] < d2[4][1]

C9_Witness ==
    /\ pc = "returned"
    /\ num_blocks = 20
    /\ Dst("res_block", <<19>>, "running_var", <<245>>) \in DOMAIN tch_dict
    /\ Dst("value_head", NoIdx, "weight", <<248>>) \in DOMAIN tch_dict
    /\ Dst("policy_head", NoIdx, "bias", <<262>>) \in DOMAIN tch_dict

\* The lowest block index below the largest one that no key carries.
HasGap(sd) == \E j \in 0..SetMax(BlockIndices(sd)) : j \notin BlockIndices(sd)
LowestGap(sd) == SetMin({ j \in 0..SetMax(BlockIndices(sd)) : j \notin BlockIndices(sd) })

\* The keys the conversion reads before it reaches block j.
ReadBefore(j) == StemKeys \cup UNION { BlockKeys(i) : i \in 0..(j - 1) }

\* C10: once detected, num_blocks is 1 + the largest block index of the
\* keys (whatever indices are absent below it).  When an index below the
\* largest is absent, the run ends in a KeyError with no output: the key
\* it names is the first one read of the lowest absent block,
\* residualBlocks.j.conv1.weight, unless a key read before block j is
\* absent too, and then it names that key.
C10_DetectMaxIndex ==
    /\ (state_dict # Unset /\ num_blocks # 0)
         => /\ BlockIndices(state_dict) # {}
            /\ (num_blocks - 1) \in BlockIndices(state_dict)
            /\ \A i \in BlockIndices(state_dict) : i < num_blocks
    /\ (/\ state_dict # Unset
        /\ pc \notin {"detect"}
        /\ BlockIndices(state_dict) # {}
        /\ HasGap(state_dict))
         => LET j == LowestGap(state_dict) IN
            /\ num_blocks = SetMax(BlockIndices(state_dict)) + 1
            /\ j < num_blocks - 1
            /\ pc \in {"convert", "failed"}
            /\ output = NoOutput
            /\ pc = "failed"
                 => /\ err.kind = "KeyError"
                    /\ err.key \notin DOMAIN state_dict
                    /\ ReadBefore(j) \subseteq DOMAIN state_dict
                          => err.key = Src("residualBlocks", <<j>>, "conv1", "weight")
                    /\ ~(ReadBefore(j) \subseteq DOMAIN state_dict)
                          => err.key \in ReadBefore(j)

C10_Witness ==
    /\ pc = "failed"
    /\ BlockIndices(state_dict) = {0, 1, 3, 4}
    /\ num_blocks = 5
    /\ err = KeyError(Src("residualBlocks", <<2>>, "conv1", "weight"))
    /\ output = NoOutput

\* C11: the mapping create_correct_mapping returns is one-to-one: no
\* source name is the value of two destination names, the inverse built
\* from it has as many entries as the mapping, and it gives every source
\* key of every residual block a destination name that maps back to it.
C11_MappingBijective ==
    pc = "inverted"
    => /\ \A p \in DOMAIN mapping : \A q \in DOMAIN mapping :
             mapping[p].src = mapping[q].src => p = q
       /\ Cardinality(DOMAIN inv_mapping) = Len(mapping)
       /\ \A i \in 0..(num_blocks - 1) : \A k \in BlockKeys(i) :
             /\ k \in DOMAIN inv_mapping
             /\ \E p \in DOMAIN mapping : mapping[p] = W(inv_mapping[k], k)

\* The suffixed head keys of the mapping just returned.
SuffixedHeadKeys ==
    { d \in DOMAIN tch_dict : d[1] \in {"value_head", "policy_head"} /\ d[4] # Bare }

\* C12: calls on the same checkpoint with the same num_blocks end the same
\* way and return the same mapping whatever num_filters is; the head
\* suffixes are those of the 10x128 table when num_blocks = 10 and those of
\* the 20x256 table (248, 249, 252..255, 258, 259, 262, 263) for every
\* other num_blocks.
C12_FiltersIgnored ==
    /\ \A i \in DOMAIN calls : \A j \in DOMAIN calls :
          (/\ calls[i].state_dict = calls[j].state_dict
           /\ calls[i].num_blocks = calls[j].num_blocks)
          => /\ calls[i].returned = calls[j].returned
             /\ calls[i].err = calls[j].err
             /\ calls[i].tch_dict = calls[j].tch_dict
             /\ calls[i].tch_src = calls[j].tch_src
    /\ pc = "returned"
          => SuffixedHeadKeys = IF num_blocks = 10 THEN C5_Heads10x128 ELSE C5_Heads20x256

C12_Witness ==
    /\ pc = "returned"
    /\ Len(calls) = 2
    /\ calls[1].state_dict = calls[2].state_dict
    /\ calls[1].num_filters = 128
    /\ calls[2].num_filters = 64
    /\ num_blocks = 7
    /\ calls[1].tch_dict = calls[2].tch_dict
    /\ Dst("value_head", NoIdx, "weight", <<248>>) \in DOMAIN tch_dict

\* The converter with the closed-form branch alone: lines 48-55 for every
\* i, block 0 included.
ClosedFormBlock(i) == ResBlockCommonWrites(i) \o ResBlockOtherWrites(i)

RECURSIVE ClosedFormResidualFrom(_, _)
ClosedFormResidualFrom(i, n) ==
    IF i >= n THEN << >>
    ELSE ClosedFormBlock(i) \o ClosedFormResidualFrom(i + 1, n)

ClosedFormAssignments(n) ==
    ConvBlockWrites \o ClosedFormResidualFrom(0, n) \o ValueHeadWrites(n) \o PolicyHeadWrites(n)

\* C13: the i >= 1 rule applied to i = 0 has base 8 and makes the eight
\* assignments of the literal block-0 table, and the converter with the
\* closed-form branch alone ends every call as the code does: the same
\* mapping from the same source keys, or the same KeyError.
C13_FirstBlockIsClosedForm ==
    pc \in {"returned", "raised"}
    => LET r == Execute(ClosedFormAssignments(num_blocks), state_dict) IN
       /\ BlockBase(0) = 8
       /\ ResBlockFirstWrites(0) = ResBlockOtherWrites(0)
       /\ (r.err = NoErr) = (pc = "returned")
       /\ pc = "returned" => (r.dict = tch_dict /\ r.src = tch_src)
       /\ pc = "raised" => r.err = err

C13_Witness ==
    /\ pc = "returned"
    /\ num_blocks = 3
    /\ Dst("res_block", <<0>>, "bias", <<12>>) \in DOMAIN tch_dict
    /\ tch_src[Dst("res_block", <<0>>, "bias", <<12>>)] = Src("residualBlocks", <<0>>, "bn1", "bias")
    /\ Dst("res_block", <<0>>, "running_var", <<17>>) \in DOMAIN tch_dict

\* The calls i, j where i's checkpoint holds extra keys and j was made on
\* it without them.
WithoutExtras(i, j) ==
    /\ calls[i].num_blocks = calls[j].num_blocks
    /\ DOMAIN calls[i].state_dict # DOMAIN calls[j].state_dict
    /\ LET req == RequiredKeys(calls[i].num_blocks) IN
         /\ req \subseteq DOMAIN calls[i].state_dict
         /\ DOMAIN calls[j].state_dict = req
         /\ \A k \in req : calls[j].state_dict[k] = calls[i].state_dict[k]

C14_Returned ==
    /\ pc \in {"returned", "raised"}
          => LET req == RequiredKeys(num_blocks) IN
             req \subseteq DOMAIN state_dict
             => /\ pc = "returned"
                /\ Cardinality(DOMAIN tch_dict) = 24 + 12 * num_blocks
                /\ { tch_src[d] : d \in DOMAIN tch_dict } = req
                /\ \A d \in DOMAIN tch_dict : tch_dict[d] = state_dict[tch_src[d]]
    /\ \A i \in DOMAIN calls : \A j \in DOMAIN calls :
          WithoutExtras(i, j)
          => /\ calls[i].returned /\ calls[j].returned
             /\ calls[i].tch_dict = calls[j].tch_dict
             /\ calls[i].tch_src = calls[j].tch_src

\* C14: a call on a checkpoint holding every required key returns, whatever
\* other keys the checkpoint holds; the mapping has 24 + 12*num_blocks keys,
\* its values are the tensors of the required keys and of no other key, it
\* equals the mapping returned for the checkpoint without the extra keys,
\* and the call leaves the checkpoint as it was.
C14_ExtrasIgnored ==
    /\ []C14_Returned
    /\ [][pc = "call" => state_dict' = state_dict]_vars

C14_Witness ==
    /\ pc = "returned"
    /\ Len(calls) = 2
    /\ num_blocks = 10
    /\ Src("residualBlocks", <<9>>, "bn2", "num_batches_tracked") \in DOMAIN calls[1].state_dict
    /\ DOMAIN calls[2].state_dict = RequiredKeys(10)
    /\ calls[1].tch_dict = calls[2].tch_dict
    /\ Cardinality(DOMAIN tch_dict) = 144

====
